---- MODULE Spec2Model ----
(***************************************************************************)
(* Interview session state machine of Reflexion-Interviewer.               *)
(*                                                                         *)
(* services/interview_agent.py : InterviewAgent  (phase pointer, counters, *)
(*                               transcript, status)                       *)
(* backend/main.py             : active_sessions registry and the handlers *)
(*                               that drive an agent                       *)
(*                                                                         *)
(* A coroutine of the agent runs without interruption up to its port round *)
(* trip (nvidia_client.chat_completion awaits the HTTP post) and again     *)
(* from the port's answer to its return, so every operation that calls the *)
(* port is two steps: ...Begin (up to the await) and ...End (after it).    *)
(* _generate_closing contains no await: the completing call is one step.   *)
(***************************************************************************)
EXTENDS Integers, Sequences, FiniteSets, TLC

\* ---------------------------------------------------------------- bounds
\* process_candidate_response calls begun per session
MaxCalls == 19
\* events per session that leave the nominal run (a port failure, an empty
\* or null port result, an unusual candidate text, a generate_opening call)
MaxOdd == 1
\* process calls on one session that may overlap in SpecConc
MaxInFlight == 2
\* process_candidate_response calls begun per session in SpecConc
MaxCallsConc == 4
\* process_candidate_response calls begun per session in SpecReport
MaxCallsReport == 4
\* process_candidate_response calls begun per session in SpecTitle
MaxCallsTitle == 2
\* process_candidate_response calls begun per session in SpecRegistry
MaxCallsRegistry == 1
\* chat_completion calls begun on one client in SpecRetry
MaxCallsRetry == 3

\* ------------------------------------------------------- program constants
\* interview_agent.py, PHASES: the per-phase question quota
PHASES ==
    << [phase_number |-> 1, name |-> "Warm-up & Background",     max_questions |-> 3],
       [phase_number |-> 2, name |-> "Technical Depth",          max_questions |-> 6],
       [phase_number |-> 3, name |-> "Problem-Solving Scenario", max_questions |-> 4],
       [phase_number |-> 4, name |-> "Behavioral & Wrap-up",     max_questions |-> 3] >>

\* _generate_next_message: self.conversation_history[-10:]
HistoryWindow == 10

\* _generate_closing: the fixed closing text
Closing == "Thank you for taking the time to interview with us today!"

\* the session ids the registry holds (uuid4 strings in the program)
SessionIds == {"s1"}

\* candidate texts a caller sends; the first is the nominal one
CandidateTexts == <<"answer", "">>

\* what the port round trip can produce:
\*   error : chat_completion raises, or extract_response_text raises
\*   text  : choices[0].message.content is the string .text
\*   null  : choices[0].message.content is None
PortOutcomes ==
    { [kind |-> "text",  text |-> "question"],
      [kind |-> "text",  text |-> ""],
      [kind |-> "null",  text |-> ""],
      [kind |-> "error", text |-> ""] }

NominalOutcome == [kind |-> "text", text |-> "question"]

VARIABLES
    active_sessions,   \* main.py: session id -> InterviewAgent fields
    inflight,          \* coroutines suspended at their port round trip, each
                       \* with the request it sent and (.before) the agent
                       \* as its caller saw it when the call began
    ret,               \* what the last finished operation returned or raised,
                       \* and (.port) what its port round trip had produced
    observed,          \* per session: the InterviewMessageResponse of
                       \* every process call that returned normally
    used               \* per session: calls begun, odd events, failed or
                       \* empty port results (bookkeeping of the bounds)

vars == <<active_sessions, inflight, ret, observed, used>>

\* ------------------------------------------------------------------ text
\* A job description and a job title are sequences of one-character
\* strings, so that split, strip, lower, len and `in` are computed.
Newline == "\n"

Whitespace == {" ", "\t", "\r", "\n"}

UpperLetters ==
    <<"A", "B", "C", "D", "E", "F", "G", "H", "I", "J", "K", "L", "M",
      "N", "O", "P", "Q", "R", "S", "T", "U", "V", "W", "X", "Y", "Z">>

LowerLetters ==
    <<"a", "b", "c", "d", "e", "f", "g", "h", "i", "j", "k", "l", "m",
      "n", "o", "p", "q", "r", "s", "t", "u", "v", "w", "x", "y", "z">>

LowerOf ==
    [c \in {UpperLetters[k] : k \in 1..Len(UpperLetters)} |->
        LowerLetters[CHOOSE k \in 1..Len(UpperLetters) : UpperLetters[k] = c]]

\* str.lower
Lower(s) ==
    [i \in 1..Len(s) |-> IF s[i] \in DOMAIN LowerOf THEN LowerOf[s[i]] ELSE s[i]]

\* str.strip
Strip(s) ==
    LET keep == {i \in 1..Len(s) : s[i] \notin Whitespace}
    IN  IF keep = {} THEN << >>
        ELSE SubSeq(s, CHOOSE i \in keep : \A j \in keep : i <= j,
                       CHOOSE i \in keep : \A j \in keep : i >= j)

\* s.split('\n')[0]
FirstLine(s) ==
    LET breaks == {i \in 1..Len(s) : s[i] = Newline}
    IN  IF breaks = {} THEN s
        ELSE SubSeq(s, 1, (CHOOSE i \in breaks : \A j \in breaks : i <= j) - 1)

\* `keyword in s`
Contains(s, keyword) ==
    \E i \in 1..(Len(s) - Len(keyword) + 1) : SubSeq(s, i, i + Len(keyword) - 1) = keyword

\* _extract_job_title: the role keywords
RoleKeywords ==
    { <<"e", "n", "g", "i", "n", "e", "e", "r">>, <<"d", "e", "v", "e", "l", "o", "p", "e", "r">>, <<"s", "o", "f", "t", "w", "a", "r", "e">>, <<"a", "r", "c", "h", "i", "t", "e", "c", "t">>, <<"s", "c", "i", "e", "n", "t", "i", "s", "t">> }

\* _extract_job_title: len(first_line) < 100
TitleLimit == 100

\* _extract_job_title: the default title
DefaultTitle == <<"S", "o", "f", "t", "w", "a", "r", "e", " ", "E", "n", "g", "i", "n", "e", "e", "r">>

ExtractJobTitleAnyLength(job_description) ==
    LET first_line == Strip(FirstLine(job_description))
        lowered == Lower(first_line)
    IN  IF \E keyword \in RoleKeywords : Contains(lowered, keyword)
        THEN first_line
        ELSE DefaultTitle

\* _extract_job_title
ExtractJobTitle(job_description) ==
    LET first_line == Strip(FirstLine(job_description))
        lowered == Lower(first_line)
    IN  IF Len(first_line) < TitleLimit
           /\ \E keyword \in RoleKeywords : Contains(lowered, keyword)
        THEN first_line
        ELSE DefaultTitle

Filler(n) == [i \in 1..n |-> "x"]

\* the job descriptions a caller uploads; the first is the nominal one.
\* A request and an agent hold a job description as its index in this
\* table, 0 standing for no job description (None or the empty string)
JobDescriptions ==
    << <<"S", "e", "n", "i", "o", "r", " ", "S", "o", "f", "t", "w", "a", "r", "e", " ", "E", "n", "g", "i", "n", "e", "e", "r", "\n", "P", "y", "t", "h", "o", "n">>,
       <<" ", " ", "B", "a", "c", "k", "e", "n", "d", " ", "D", "e", "v", "e", "l", "o", "p", "e", "r", " ", "\r", "\n", "R", "e", "m", "o", "t", "e">>,
       <<"D", "A", "T", "A", " ", "S", "C", "I", "E", "N", "T", "I", "S", "T">>,
       <<"A", "b", "o", "u", "t", " ", "u", "s", "\n", "S", "o", "f", "t", "w", "a", "r", "e", " ", "E", "n", "g", "i", "n", "e", "e", "r">>,
       <<"\n", "S", "o", "f", "t", "w", "a", "r", "e", " ", "E", "n", "g", "i", "n", "e", "e", "r">>,
       <<" ">>,
       <<"E", "n", "g", "i", "n", "e", "e", "r", "i", "n", "g", " ", "M", "a", "n", "a", "g", "e", "r", "\n">>,
       Filler(90) \o <<" ", "e", "n", "g", "i", "n", "e", "e", "r">>,
       Filler(91) \o <<" ", "e", "n", "g", "i", "n", "e", "e", "r">>,
       Filler(86) \o <<" ", "e", "n", "g", "i", "n", "e", "e", "r">> \o <<" ", " ", " ", " ", " ", "\n", "x">>,
       <<"P", "r", "o", "d", "u", "c", "t", " ", "D", "e", "s", "i", "g", "n", "e", "r">> >>

\* the candidate profiles the resume analyzer extracts
CandidateProfiles == <<[name |-> "Ada"], [name |-> "Grace"]>>

\* ------------------------------------------------------------ the agent
\* _build_system_prompt: the only part of the prompt that changes during a
\* session is the phase number of its last line
BuildSystemPrompt(phase) ==
    <<"Phase 1 prompt", "Phase 2 prompt", "Phase 3 prompt", "Phase 4 prompt">>[phase]

NewAgentGreeted ==
    [ current_phase            |-> 1,
      questions_asked_in_phase |-> 0,
      total_questions          |-> 0,
      conversation_history     |-> <<[role |-> "assistant", content |-> "Hello"]>>,
      status                   |-> "active",
      system_prompt            |-> BuildSystemPrompt(1) ]

\* InterviewAgent.__init__
NewAgent ==
    [ current_phase            |-> 1,
      questions_asked_in_phase |-> 0,
      total_questions          |-> 0,
      conversation_history     |-> << >>,
      status                   |-> "active",
      system_prompt            |-> BuildSystemPrompt(1) ]

\* InterviewAgent.__init__: the fields set from the arguments, the fresh
\* session id and the clock, and the fields every new agent starts with
NewSession(session_id, candidate_profile, job_description, now) ==
    [ session_id        |-> session_id,
      candidate_profile |-> candidate_profile,
      job_description   |-> job_description,
      started_at        |-> now ] @@ NewAgent

\* InterviewMessage(role=..., content=...)
InterviewMessage(role, content) == [role |-> role, content |-> content]

AppendMessageSkipEmpty(a, role, content) ==
    IF content = "" THEN a
    ELSE [a EXCEPT !.conversation_history = Append(@, InterviewMessage(role, content))]

AppendMessageCapped(a, role, content) ==
    [a EXCEPT !.conversation_history =
        IF Len(@) >= 20 THEN Append(Tail(@), InterviewMessage(role, content))
        ELSE Append(@, InterviewMessage(role, content))]

\* self.conversation_history.append(...)
AppendMessage(a, role, content) ==
    [a EXCEPT !.conversation_history = Append(@, InterviewMessage(role, content))]

ShouldAdvanceStrict(a) ==
    a.questions_asked_in_phase > PHASES[a.current_phase].max_questions

\* _should_advance_phase
ShouldAdvancePhase(a) ==
    a.questions_asked_in_phase >= PHASES[a.current_phase].max_questions

HasNextPhaseEarly(a) == a.current_phase < 3

\* process_candidate_response: `if self.current_phase < 4`
HasNextPhase(a) == a.current_phase < 4

AdvancePhaseNoReset(a) ==
    [a EXCEPT !.current_phase = @ + 1,
              !.system_prompt = BuildSystemPrompt(a.current_phase + 1)]

AdvancePhaseWrap(a) ==
    [a EXCEPT !.current_phase = (@ % 3) + 1,
              !.questions_asked_in_phase = 0,
              !.system_prompt = BuildSystemPrompt((a.current_phase % 3) + 1)]

AdvancePhaseRestamp(a) ==
    [a EXCEPT !.current_phase = @ + 1,
              !.questions_asked_in_phase = 0,
              !.system_prompt = BuildSystemPrompt(a.current_phase + 1),
              !.started_at = @ + 1]

AdvancePhaseStalePrompt(a) ==
    [a EXCEPT !.current_phase = @ + 1,
              !.questions_asked_in_phase = 0]

\* process_candidate_response: the phase increment, the counter reset and
\* the rebuilt system prompt
AdvancePhase(a) ==
    [a EXCEPT !.current_phase = @ + 1,
              !.questions_asked_in_phase = 0,
              !.system_prompt = BuildSystemPrompt(a.current_phase + 1)]

CompleteInterviewToggle(a) ==
    AppendMessage([a EXCEPT !.status = IF @ = "active" THEN "completed" ELSE "active"],
                  "assistant", Closing)

CompleteInterviewCounted(a) ==
    AppendMessage([a EXCEPT !.status = "completed", !.total_questions = @ + 1],
                  "assistant", Closing)

CompleteInterviewOnce(a) ==
    IF a.status = "completed" THEN a
    ELSE AppendMessage([a EXCEPT !.status = "completed"], "assistant", Closing)

\* process_candidate_response: self.status = "completed", then
\* _generate_closing appends the closing text
CompleteInterview(a) ==
    AppendMessage([a EXCEPT !.status = "completed"], "assistant", Closing)

BuildMessagesOldest(a) ==
    LET h == a.conversation_history
        n == Len(h)
        recent_history == IF n <= HistoryWindow THEN h
                          ELSE SubSeq(h, 1, HistoryWindow)
    IN  <<InterviewMessage("system", a.system_prompt)>> \o recent_history

\* _generate_next_message: the request handed to the port
BuildMessages(a) ==
    LET h == a.conversation_history
        n == Len(h)
        recent_history == IF n <= HistoryWindow THEN h
                          ELSE SubSeq(h, n - HistoryWindow + 1, n)
    IN  <<InterviewMessage("system", a.system_prompt)>> \o recent_history

\* Python truthiness of the port's text: `if next_message:`
Truthy(outcome) == outcome.kind = "text" /\ outcome.text # ""

RecordQuestionTotalAlways(a, outcome) ==
    IF Truthy(outcome)
    THEN AppendMessage([a EXCEPT !.questions_asked_in_phase = @ + 1,
                                 !.total_questions = @ + 1],
                       "assistant", outcome.text)
    ELSE [a EXCEPT !.total_questions = @ + 1]

\* process_candidate_response after the port answered: both counters and
\* the assistant message, only for a truthy text
RecordQuestion(a, outcome) ==
    IF Truthy(outcome)
    THEN AppendMessage([a EXCEPT !.questions_asked_in_phase = @ + 1,
                                 !.total_questions = @ + 1],
                       "assistant", outcome.text)
    ELSE a

OnPortFailureApologise(a) == AppendMessage(a, "assistant", "Sorry, please repeat.")

\* process_candidate_response: `except Exception: ... raise` undoes and
\* adds nothing
OnPortFailure(a) == a

RecordOpeningCounted(a, text) ==
    AppendMessage([a EXCEPT !.total_questions = @ + 1], "assistant", text)

\* generate_opening: the opening text is appended, no counter moves
RecordOpening(a, text) == AppendMessage(a, "assistant", text)

GetInterviewStateOfRecent(a) ==
    [ session_id           |-> a.session_id,
      candidate_profile    |-> a.candidate_profile,
      job_description      |-> a.job_description,
      started_at           |-> a.started_at,
      current_phase        |-> a.current_phase,
      total_questions      |-> a.total_questions,
      conversation_history |-> SubSeq(a.conversation_history,
                                      IF Len(a.conversation_history) > 20
                                      THEN Len(a.conversation_history) - 19 ELSE 1,
                                      Len(a.conversation_history)),
      status               |-> a.status ]

\* get_interview_state
GetInterviewStateOf(a) ==
    [ session_id           |-> a.session_id,
      candidate_profile    |-> a.candidate_profile,
      job_description      |-> a.job_description,
      started_at           |-> a.started_at,
      current_phase        |-> a.current_phase,
      total_questions      |-> a.total_questions,
      conversation_history |-> a.conversation_history,
      status               |-> a.status ]

\* main.py send_interview_message: the response built from the state
\* right after process_candidate_response returned
InterviewMessageResponse(sid, a, text) ==
    [ session_id         |-> sid,
      message            |-> IF text = "" THEN "Interview completed" ELSE text,
      current_phase      |-> a.current_phase,
      total_questions    |-> a.total_questions,
      interview_complete |-> (a.status = "completed") ]

\* ------------------------------------------------ the assessment engine
\* Scores are floats with at most two decimals in the inputs used here;
\* the model holds them in hundredths (5.0 is 500, 10 is 1000).
FallbackScore == 500

MaxScore == 1000

Recommendations == {"strong_yes", "yes", "maybe", "no", "strong_no"}

\* the outcome of a Python expression: a value, or a raised exception class
Ok(v) == [ok |-> TRUE, exc |-> "", val |-> <<v>>]

Raise(cls) == [ok |-> FALSE, exc |-> cls, val |-> << >>]

ValueOf(r) == r.val[1]

\* the exception classes the report path can raise; all derive from
\* Exception
ExceptionClasses == {"Exception", "ValueError", "KeyError", "TypeError", "ValidationError"}

CaughtOnlyValueError(cls) == cls = "ValueError"

\* generate_report: `except Exception as e:`
CaughtByExceptException(cls) == cls \in ExceptionClasses

\* A response text is a sequence of tokens: prose, a ```json marker, a ```
\* marker, or a JSON document (.data = [shape, obj], obj a record of the
\* keys present).
Prose == [t |-> "prose"]

FenceJson == [t |-> "fence_json"]

Fence == [t |-> "fence"]

Doc(d) == [t |-> "doc", data |-> d]

HasToken(ts, kinds) == \E i \in 1..Len(ts) : ts[i].t \in kinds

FirstToken(ts, kinds) ==
    CHOOSE i \in 1..Len(ts) : ts[i].t \in kinds /\ \A j \in 1..(i - 1) : ts[j].t \notin kinds

\* text.split(marker)[1]: what follows the first marker
AfterFirst(ts, kinds) == SubSeq(ts, FirstToken(ts, kinds) + 1, Len(ts))

\* text.split("```")[0]: what precedes the first ``` (``` json included)
BeforeFence(ts) ==
    IF HasToken(ts, {"fence", "fence_json"})
    THEN SubSeq(ts, 1, FirstToken(ts, {"fence", "fence_json"}) - 1)
    ELSE ts

\* _parse_assessment_response: the markdown code block is stripped
Unfence(ts) ==
    IF HasToken(ts, {"fence_json"}) THEN BeforeFence(AfterFirst(ts, {"fence_json"}))
    ELSE IF HasToken(ts, {"fence"}) THEN BeforeFence(AfterFirst(ts, {"fence"}))
    ELSE ts

\* json.loads inside `except json.JSONDecodeError: raise ValueError`: the
\* text must be exactly one JSON document
JsonLoads(ts) ==
    IF Len(ts) = 1 /\ ts[1].t = "doc" THEN Ok(ts[1].data) ELSE Raise("ValueError")

\* nvidia_client.extract_response_text on the report's response
ExtractResponseText(resp) ==
    IF resp.kind = "malformed" THEN Raise("Exception") ELSE Ok(resp)

\* _parse_assessment_response; `"```json" in None` is a TypeError
ParseAssessmentResponse(resp) ==
    LET t == ExtractResponseText(resp)
    IN  IF ~t.ok THEN t
        ELSE IF resp.kind = "null" THEN Raise("TypeError")
        ELSE JsonLoads(Unfence(resp.tokens))

PhaseKeys ==
    {"phase_number", "phase_name", "technical_accuracy", "problem_solving",
     "communication", "depth_of_knowledge"}

InRangeNoCeiling(x) == x >= 0

\* Field(ge=0, le=10)
InRange(x) == x >= 0 /\ x <= MaxScore

\* PhaseScore's field constraints (schemas.py)
PhaseValid(ph) ==
    /\ ph.phase_number \in 1..4
    /\ InRange(ph.technical_accuracy) /\ InRange(ph.problem_solving)
    /\ InRange(ph.communication) /\ InRange(ph.depth_of_knowledge)

PhaseScoreUpstreamAverage(ph) ==
    [ phase_number       |-> ph.phase_number,
      phase_name         |-> ph.phase_name,
      technical_accuracy |-> ph.technical_accuracy,
      problem_solving    |-> ph.problem_solving,
      communication      |-> ph.communication,
      depth_of_knowledge |-> ph.depth_of_knowledge,
      average_score      |-> IF "average_score" \in DOMAIN ph THEN ph.average_score
                             ELSE (ph.technical_accuracy + ph.problem_solving
                                   + ph.communication + ph.depth_of_knowledge) \div 4 ]

\* _parse_phase_scores: one PhaseScore per entry, its average recomputed
\* (the inputs used here have sums that four divides)
PhaseScoreOf(ph) ==
    [ phase_number       |-> ph.phase_number,
      phase_name         |-> ph.phase_name,
      technical_accuracy |-> ph.technical_accuracy,
      problem_solving    |-> ph.problem_solving,
      communication      |-> ph.communication,
      depth_of_knowledge |-> ph.depth_of_knowledge,
      average_score      |-> (ph.technical_accuracy + ph.problem_solving
                              + ph.communication + ph.depth_of_knowledge) \div 4 ]

\* _parse_phase_scores: the first entry that lacks a key or fails
\* PhaseScore's validation raises
ParsePhaseScores(phase_data) ==
    LET bad == {i \in 1..Len(phase_data) :
                  \/ ~(PhaseKeys \subseteq DOMAIN phase_data[i])
                  \/ ~PhaseValid(phase_data[i])}
    IN  IF bad = {}
        THEN Ok([i \in 1..Len(phase_data) |-> PhaseScoreOf(phase_data[i])])
        ELSE LET first == CHOOSE i \in bad : \A j \in bad : i <= j
             IN  IF ~(PhaseKeys \subseteq DOMAIN phase_data[first])
                 THEN Raise("KeyError") ELSE Raise("ValidationError")

\* generate_report: InterviewReport(...) built from the parsed data; the
\* arguments are evaluated in order, then the model is validated
BuildReport(state, data) ==
    IF data.shape # "object" THEN Raise("TypeError")
    ELSE LET d == data.obj
             has(k) == k \in DOMAIN d
             phases == IF has("phase_scores") THEN ParsePhaseScores(d.phase_scores)
                       ELSE Ok(<< >>)
         IN  IF ~has("overall_score") \/ ~has("recommendation") THEN Raise("KeyError")
             ELSE IF ~phases.ok THEN phases
             ELSE IF ~has("strengths") THEN Raise("KeyError")
             ELSE IF ~({"top_strengths", "demonstrated_skills"} \subseteq DOMAIN d.strengths)
                  THEN Raise("ValidationError")
             ELSE IF ~has("weaknesses") THEN Raise("KeyError")
             ELSE IF ~({"areas_for_improvement"} \subseteq DOMAIN d.weaknesses)
                  THEN Raise("ValidationError")
             ELSE IF ~has("summary") \/ ~has("key_highlights") THEN Raise("KeyError")
             ELSE IF ~InRange(d.overall_score) \/ d.recommendation \notin Recommendations
                  THEN Raise("ValidationError")
             ELSE Ok([ session_id      |-> state.session_id,
                       candidate_name  |-> state.candidate_profile.name,
                       job_title       |-> ExtractJobTitle(JobDescriptions[state.job_description]),
                       overall_score   |-> d.overall_score,
                       recommendation  |-> d.recommendation,
                       phase_scores    |-> ValueOf(phases),
                       strengths       |-> d.strengths,
                       weaknesses      |-> d.weaknesses,
                       summary         |-> d.summary,
                       key_highlights  |-> d.key_highlights,
                       raw_analysis    |-> <<d>> ])

GenerateFallbackReportReached(state) ==
    [ session_id      |-> state.session_id,
      candidate_name  |-> state.candidate_profile.name,
      job_title       |-> ExtractJobTitle(JobDescriptions[state.job_description]),
      overall_score   |-> FallbackScore,
      recommendation  |-> "maybe",
      phase_scores    |-> [i \in 1..state.current_phase |->
                             [ phase_number       |-> i,
                               phase_name         |-> PHASES[i].name,
                               technical_accuracy |-> FallbackScore,
                               problem_solving    |-> FallbackScore,
                               communication      |-> FallbackScore,
                               depth_of_knowledge |-> FallbackScore,
                               average_score      |-> FallbackScore ]],
      strengths       |-> [ top_strengths        |-> <<"Completed interview successfully">>,
                            demonstrated_skills  |-> << >>,
                            notable_achievements |-> << >> ],
      weaknesses      |-> [ areas_for_improvement |-> <<"Assessment incomplete">>,
                            missing_skills        |-> << >>,
                            concerns              |-> <<"AI assessment generation failed">> ],
      summary         |-> "Assessment report generation encountered an error. Manual review recommended.",
      key_highlights  |-> <<"Interview session completed">>,
      raw_analysis    |-> << >> ]

\* _generate_fallback_report
GenerateFallbackReport(state) ==
    [ session_id      |-> state.session_id,
      candidate_name  |-> state.candidate_profile.name,
      job_title       |-> ExtractJobTitle(JobDescriptions[state.job_description]),
      overall_score   |-> FallbackScore,
      recommendation  |-> "maybe",
      phase_scores    |-> [i \in 1..Len(PHASES) |->
                             [ phase_number       |-> i,
                               phase_name         |-> PHASES[i].name,
                               technical_accuracy |-> FallbackScore,
                               problem_solving    |-> FallbackScore,
                               communication      |-> FallbackScore,
                               depth_of_knowledge |-> FallbackScore,
                               average_score      |-> FallbackScore ]],
      strengths       |-> [ top_strengths        |-> <<"Completed interview successfully">>,
                            demonstrated_skills  |-> << >>,
                            notable_achievements |-> << >> ],
      weaknesses      |-> [ areas_for_improvement |-> <<"Assessment incomplete">>,
                            missing_skills        |-> << >>,
                            concerns              |-> <<"AI assessment generation failed">> ],
      summary         |-> "Assessment report generation encountered an error. Manual review recommended.",
      key_highlights  |-> <<"Interview session completed">>,
      raw_analysis    |-> << >> ]

\* generate_report, the body of its try block
TryGenerateReport(state, resp) ==
    IF resp.kind = "error" THEN Raise("Exception")
    ELSE LET parsed == ParseAssessmentResponse(resp)
         IN  IF ~parsed.ok THEN parsed ELSE BuildReport(state, ValueOf(parsed))

\* generate_report
GenerateReport(state, resp) ==
    LET r == TryGenerateReport(state, resp)
    IN  IF r.ok THEN r
        ELSE IF CaughtByExceptException(r.exc) THEN Ok(GenerateFallbackReport(state))
        ELSE r

\* ----------------------------------- what the port returns for a report
GoodPhase(n) ==
    [ phase_number |-> n, phase_name |-> PHASES[n].name,
      technical_accuracy |-> 800, problem_solving |-> 700,
      communication |-> 900, depth_of_knowledge |-> 600,
      average_score |-> 100 ]

GoodObj ==
    [ overall_score  |-> 750,
      recommendation |-> "yes",
      phase_scores   |-> <<GoodPhase(1), GoodPhase(2), GoodPhase(3), GoodPhase(4)>>,
      strengths      |-> [top_strengths |-> <<"depth">>, demonstrated_skills |-> <<"python">>],
      weaknesses     |-> [areas_for_improvement |-> <<"testing">>],
      summary        |-> "Solid candidate.",
      key_highlights |-> <<"clear answers">> ]

Without(obj, k) == [x \in (DOMAIN obj) \ {k} |-> obj[x]]

Object(obj) == [shape |-> "object", obj |-> obj]

Text(label, ts) == [kind |-> "text", label |-> label, tokens |-> ts]

\* the responses the port gives to the assessment request, each labelled
\* with the case it stands for
ReportResponses ==
    << Text("valid", <<Doc(Object(GoodObj))>>),
       [kind |-> "error", label |-> "port_failure", tokens |-> << >>],
       Text("valid", <<Prose, FenceJson, Doc(Object(GoodObj)), Fence, Prose>>),
       Text("valid", <<Fence, Doc(Object(Without(GoodObj, "phase_scores"))), Fence>>),
       Text("valid", <<Doc(Object([GoodObj EXCEPT !.phase_scores =
                           <<[GoodPhase(3) EXCEPT !.technical_accuracy = 1000,
                                                  !.problem_solving = 0,
                                                  !.communication = 550,
                                                  !.depth_of_knowledge = 250,
                                                  !.average_score = 1000],
                             Without(GoodPhase(4), "average_score")>>]))>>),
       [kind |-> "malformed", label |-> "malformed_shape", tokens |-> << >>],
       [kind |-> "null", label |-> "malformed_shape", tokens |-> << >>],
       Text("unparseable", <<Prose>>),
       Text("unparseable", <<Prose, Doc(Object(GoodObj))>>),
       Text("unparseable", <<FenceJson, Prose, Fence, Doc(Object(GoodObj))>>),
       Text("unparseable", << >>),
       Text("missing_keys", <<Doc(Object(Without(GoodObj, "overall_score")))>>),
       Text("missing_keys", <<Doc(Object(Without(GoodObj, "summary")))>>),
       Text("missing_keys", <<Doc(Object([GoodObj EXCEPT !.phase_scores =
                                  <<GoodPhase(1), Without(GoodPhase(2), "communication")>>]))>>),
       Text("missing_keys", <<Doc(Object([GoodObj EXCEPT !.strengths =
                                  [top_strengths |-> <<"depth">>]]))>>),
       Text("missing_keys", <<Doc([shape |-> "array", obj |-> GoodObj])>>),
       Text("out_of_range", <<Doc(Object([GoodObj EXCEPT !.overall_score = 1100]))>>),
       Text("out_of_range", <<Doc(Object([GoodObj EXCEPT !.overall_score = 0 - 50]))>>),
       Text("out_of_range", <<Doc(Object([GoodObj EXCEPT !.recommendation = "hire"]))>>),
       Text("out_of_range", <<Doc(Object([GoodObj EXCEPT !.phase_scores =
                                  <<[GoodPhase(1) EXCEPT !.communication = 1100]>>]))>>),
       Text("out_of_range", <<Doc(Object([GoodObj EXCEPT !.phase_scores =
                                  <<[GoodPhase(1) EXCEPT !.phase_number = 5]>>]))>> ) >>

\* the responses drawn where the report's content is not at stake: one
\* that parses and one port failure, or the port failure alone
CommonReportResponses == {1, 2}

FailedReportResponses == {2}

\* ------------------------------------------------------------ the registry
\* main.py: active_sessions.get(session_id); << >> stands for None
RegistryGet(registry, sid) ==
    IF sid \in DOMAIN registry THEN <<registry[sid]>> ELSE << >>

MutateEvictCompleted(registry, sid, a) ==
    IF a.status = "completed"
    THEN [t \in (DOMAIN registry) \ {sid} |-> registry[t]]
    ELSE [registry EXCEPT ![sid] = a]

MutateSharedHistory(registry, sid, a) ==
    [t \in DOMAIN registry |->
        IF t = sid THEN a
        ELSE [registry[t] EXCEPT !.conversation_history = a.conversation_history]]

\* the agent a handler looked up is the object its methods mutate: the
\* registry maps sid to the agent's new fields, every other entry is as
\* it was
Mutate(registry, sid, a) == [registry EXCEPT ![sid] = a]

OnMissingSessionCreate(registry, sid) ==
    IF sid \in {"s1", "s2"}
    THEN registry @@ (sid :> NewSession(sid, CandidateProfiles[1], 1, 1))
    ELSE registry

\* `if not agent: raise HTTPException(status_code=404, ...)`: the registry
\* after a request for an id it does not hold
OnMissingSession(registry, sid) == registry

\* main.py upload_resume: active_sessions[session_id] = agent
Register(registry, sid, a) == registry @@ (sid :> a)

\* main.py upload_resume, the body of its try block: what it raises
\* (.exc, with .status for an HTTPException), "none" when it returns
UploadTry(req) ==
    IF ~req.pdf THEN [exc |-> "HTTPException", status |-> 400]
    ELSE IF req.job_description = 0 THEN [exc |-> "HTTPException", status |-> 400]
    ELSE IF req.analysis = "no_api_key" THEN [exc |-> "ValueError", status |-> 0]
    ELSE IF req.analysis = "fail" THEN [exc |-> "HTTPException", status |-> 500]
    ELSE [exc |-> "none", status |-> 200]

\* main.py upload_resume, its except clauses: `except ValueError` answers
\* 400, `except Exception` answers 500 and is the clause an HTTPException
\* raised in the try block reaches
UploadStatus(outcome) ==
    IF outcome.exc = "none" THEN 200
    ELSE IF outcome.exc = "ValueError" THEN 400
    ELSE 500

\* the upload requests: a PDF or another file, a job description or none,
\* how the resume analysis goes and the profile it extracts when it succeeds
UploadRequests ==
    { [pdf |-> TRUE,  job_description |-> 1, analysis |-> "ok",
       profile |-> CandidateProfiles[1]],
      [pdf |-> TRUE,  job_description |-> 3, analysis |-> "ok",
       profile |-> CandidateProfiles[2]],
      [pdf |-> TRUE,  job_description |-> 0, analysis |-> "ok",
       profile |-> CandidateProfiles[1]],
      [pdf |-> FALSE, job_description |-> 1, analysis |-> "ok",
       profile |-> CandidateProfiles[1]],
      [pdf |-> TRUE,  job_description |-> 1, analysis |-> "fail",
       profile |-> CandidateProfiles[1]],
      [pdf |-> TRUE,  job_description |-> 1, analysis |-> "no_api_key",
       profile |-> CandidateProfiles[1]] }

\* the uploads drawn where several sessions run side by side: the nominal
\* resume, accepted or refused
CommonUploadRequests == {req \in UploadRequests : req.profile = CandidateProfiles[1]}

\* the port outcomes drawn where several sessions run side by side
RegistryOutcomes == {NominalOutcome, [kind |-> "error", text |-> ""]}

\* the ids uuid4 issues, and an id it never issues
RegistryIds == {"s1", "s2"}

UnknownIds == {"s0"}

\* datetime.now(): the clock reading at a registration, later for every
\* later one
Now(registry) == Cardinality(DOMAIN registry) + 1

\* ------------------------------------------------------- the port client
\* nvidia_config.py: max_retries
max_retries == 3

\* what one HTTP post of chat_completion can end in:
\*   ok           : a 2xx response whose body parses
\*   status_error : raise_for_status raises httpx.HTTPStatusError
\*   other_error  : any other exception (timeout, connection, bad body)
HttpAnswers == {"ok", "status_error", "other_error"}

RetryableAny(answer) == answer # "ok"

\* chat_completion: `except httpx.HTTPStatusError` is the only handler
\* that lets the loop go on
Retryable(answer) == answer = "status_error"

\* chat_completion: `if attempt == self.config.max_retries - 1`
IsLastAttempt(attempt) == attempt = max_retries - 1

\* chat_completion: asyncio.sleep(2 ** attempt), in seconds
Backoff(attempt) == 2 ^ attempt

\* chat_completion from its call to its first HTTP post, or to its return
\* when range(max_retries) is empty
NewChatCompletion(sid, id) ==
    [ sid |-> sid, op |-> "chat_completion", id |-> id, attempt |-> 0,
      at |-> IF 0 < max_retries THEN "post" ELSE "return",
      answers |-> << >>, waits |-> << >> ]

\* chat_completion, one pass of the loop body after the post has ended in
\* `answer`: .at is where the coroutine is next (suspended in the sleep,
\* returned, or raised)
AfterPost(c, answer) ==
    LET d == [c EXCEPT !.answers = Append(@, answer)]
    IN  IF answer = "ok" THEN [d EXCEPT !.at = "return"]
        ELSE IF Retryable(answer)
        THEN IF IsLastAttempt(c.attempt) THEN [d EXCEPT !.at = "raise"]
             ELSE [d EXCEPT !.at = "sleep", !.waits = Append(@, Backoff(c.attempt))]
        ELSE [d EXCEPT !.at = "raise"]

\* chat_completion, the sleep is over: the next value of range(max_retries)
\* or, when there is none, the end of the function
AfterSleep(c) ==
    [c EXCEPT !.attempt = @ + 1,
              !.at = IF c.attempt + 1 < max_retries THEN "post" ELSE "return"]

\* ------------------------------------------------------------ bookkeeping
FinishRetryOnError(calls, c, outcome) ==
    IF outcome.kind = "error" THEN calls ELSE calls \ {c}

\* process_candidate_response, generate_opening: the single awaited
\* chat_completion has answered or raised and the coroutine runs to its
\* return or re-raises; it awaits the port no second time
Finish(calls, c, outcome) == calls \ {c}

InFlightOf(sid) == {c \in inflight : c.sid = sid}

IsOdd(outcome) == outcome # NominalOutcome

Charge(sid, field) == [used EXCEPT ![sid][field] = @ + 1]

\* --------------------------------------------------------------- actions
Init ==
    /\ active_sessions = [sid \in SessionIds |->
                            NewSession(sid, CandidateProfiles[1], 1, 1)]
    /\ inflight = {}
    /\ ret = [op |-> "init", sid |-> "", kind |-> "ok", value |-> "", port |-> "none"]
    /\ observed = [sid \in SessionIds |-> << >>]
    /\ used = [sid \in SessionIds |-> [calls |-> 0, odd |-> 0, bad |-> 0]]

\* process_candidate_response up to its port round trip, or up to its
\* return when it closes the interview; at most `limit` calls of the
\* session overlap and at most `budget` calls are begun
ProcessBegin(sid, text, limit, budget) ==
    /\ sid \in DOMAIN active_sessions
    /\ Cardinality(InFlightOf(sid)) < limit
    /\ used[sid].calls < budget
    /\ text # CandidateTexts[1] => used[sid].odd < MaxOdd
    /\ LET a0 == active_sessions[sid]
           a1 == AppendMessage(a0, "user", text)
           u1 == [used[sid] EXCEPT !.calls = @ + 1,
                                   !.odd = IF text # CandidateTexts[1] THEN @ + 1 ELSE @]
       IN  IF ShouldAdvancePhase(a1) /\ ~HasNextPhase(a1)
           THEN LET a2 == CompleteInterview(a1)
                IN  /\ active_sessions' = Mutate(active_sessions, sid, a2)
                    /\ inflight' = inflight
                    /\ ret' = [op |-> "process", sid |-> sid, kind |-> "ok",
                               value |-> Closing, port |-> "none"]
                    /\ observed' = [observed EXCEPT ![sid] =
                                      Append(@, InterviewMessageResponse(sid, a2, Closing))]
                    /\ used' = [used EXCEPT ![sid] = u1]
           ELSE LET a2 == IF ShouldAdvancePhase(a1) THEN AdvancePhase(a1) ELSE a1
                IN  /\ active_sessions' = Mutate(active_sessions, sid, a2)
                    /\ inflight' = inflight \cup
                                   {[sid |-> sid, op |-> "process", id |-> u1.calls,
                                     messages |-> BuildMessages(a2), before |-> a0]}
                    /\ used' = [used EXCEPT ![sid] = u1]
                    /\ UNCHANGED <<ret, observed>>

\* process_candidate_response from the port's answer to its return
ProcessEnd(c, outcome) ==
    /\ c \in inflight
    /\ c.op = "process"
    /\ IsOdd(outcome) => used[c.sid].odd < MaxOdd
    /\ inflight' = Finish(inflight, c, outcome)
    /\ used' = [used EXCEPT ![c.sid].odd = IF IsOdd(outcome) THEN @ + 1 ELSE @,
                            ![c.sid].bad = IF Truthy(outcome) THEN @ ELSE @ + 1]
    /\ IF outcome.kind = "error"
       THEN /\ active_sessions' = Mutate(active_sessions, c.sid, OnPortFailure(active_sessions[c.sid]))
            /\ ret' = [op |-> "process", sid |-> c.sid, kind |-> "raise", value |-> "",
                       port |-> outcome.kind]
            /\ UNCHANGED observed
       ELSE LET a2 == RecordQuestion(active_sessions[c.sid], outcome)
            IN  /\ active_sessions' = Mutate(active_sessions, c.sid, a2)
                /\ ret' = [op |-> "process", sid |-> c.sid, kind |-> "ok",
                           value |-> outcome.text, port |-> outcome.kind]
                /\ observed' = [observed EXCEPT ![c.sid] =
                                  Append(@, InterviewMessageResponse(c.sid, a2, outcome.text))]

\* generate_opening up to its port round trip
OpeningBegin(sid) ==
    /\ sid \in DOMAIN active_sessions
    /\ InFlightOf(sid) = {}
    /\ used[sid].odd < MaxOdd
    /\ inflight' = inflight \cup
                   {[sid |-> sid, op |-> "opening", id |-> 0,
                     messages |-> << InterviewMessage("system", active_sessions[sid].system_prompt),
                                     InterviewMessage("assistant", "Hello") >>,
                     before |-> active_sessions[sid]]}
    /\ used' = Charge(sid, "odd")
    /\ UNCHANGED <<active_sessions, ret, observed>>

\* generate_opening from the port's answer to its return: a text (empty or
\* not) is appended; None fails InterviewMessage's validation
OpeningEnd(c, outcome) ==
    /\ c \in inflight
    /\ c.op = "opening"
    /\ inflight' = Finish(inflight, c, outcome)
    /\ IF outcome.kind = "text"
       THEN /\ active_sessions' = Mutate(active_sessions, c.sid,
                                        RecordOpening(active_sessions[c.sid], outcome.text))
            /\ ret' = [op |-> "opening", sid |-> c.sid, kind |-> "ok",
                       value |-> outcome.text, port |-> outcome.kind]
       ELSE /\ ret' = [op |-> "opening", sid |-> c.sid, kind |-> "raise", value |-> "",
                       port |-> outcome.kind]
            /\ UNCHANGED active_sessions
    /\ UNCHANGED <<observed, used>>

\* get_interview_state (main.py get_interview_status)
GetInterviewState(sid) ==
    /\ sid \in DOMAIN active_sessions
    /\ ret' = [op |-> "state", sid |-> sid, kind |-> "ok",
               value |-> GetInterviewStateOf(active_sessions[sid]), port |-> "none"]
    /\ UNCHANGED <<active_sessions, inflight, observed, used>>

\* main.py generate_interview_report: generate_report on the snapshot of
\* the session and the port's response; what generate_report raises
\* reaches the caller as an error (.again: the answer before this one was
\* a report on the same session)
GenerateInterviewReport(sid, resp) ==
    /\ sid \in DOMAIN active_sessions
    /\ LET r == GenerateReport(GetInterviewStateOf(active_sessions[sid]), resp)
       IN  ret' = [op |-> "report", sid |-> sid,
                   kind |-> IF r.ok THEN "ok" ELSE "raise",
                   value |-> r.val, port |-> resp.kind, input |-> resp,
                   again |-> (ret.op = "report" /\ ret.sid = sid)]
    /\ UNCHANGED <<active_sessions, inflight, observed, used>>

\* a message, status or report request (op) for an id the registry does
\* not hold: HTTP 404
NotFound(op, sid) ==
    /\ RegistryGet(active_sessions, sid) = << >>
    /\ active_sessions' = OnMissingSession(active_sessions, sid)
    /\ ret' = [op |-> op, sid |-> sid, kind |-> "http", value |-> "", port |-> "none",
               status |-> 404]
    /\ UNCHANGED <<inflight, observed, used>>

\* main.py upload_resume: the request is refused, or an agent is created
\* under a fresh id and registered
UploadResume(req, sid) ==
    /\ sid \notin DOMAIN active_sessions
    /\ LET outcome == UploadTry(req)
       IN  /\ active_sessions' =
                 IF outcome.exc = "none"
                 THEN Register(active_sessions, sid,
                               NewSession(sid, req.profile, req.job_description,
                                          Now(active_sessions)))
                 ELSE active_sessions
           /\ ret' = [op |-> "upload", sid |-> IF outcome.exc = "none" THEN sid ELSE "",
                      kind |-> IF outcome.exc = "none" THEN "ok" ELSE "http",
                      value |-> "", port |-> "none",
                      status |-> UploadStatus(outcome), input |-> req]
    /\ UNCHANGED <<inflight, observed, used>>

\* chat_completion is called on the client of session sid
ChatCompletionBegin(sid) ==
    /\ sid \in DOMAIN active_sessions
    /\ used[sid].calls < MaxCallsRetry
    /\ inflight' = inflight \cup {NewChatCompletion(sid, used[sid].calls + 1)}
    /\ used' = Charge(sid, "calls")
    /\ UNCHANGED <<active_sessions, ret, observed>>

\* the HTTP post a chat_completion call awaits ends in `answer`: the call
\* returns the response, raises, or goes to sleep before its next attempt
ChatCompletionPost(c, answer) ==
    /\ c \in inflight
    /\ c.op = "chat_completion"
    /\ c.at = "post"
    /\ LET d == AfterPost(c, answer)
       IN  IF d.at = "sleep"
           THEN /\ inflight' = (inflight \ {c}) \cup {d}
                /\ UNCHANGED ret
           ELSE /\ inflight' = inflight \ {c}
                /\ ret' = [op |-> "chat_completion", sid |-> c.sid,
                           kind |-> IF d.at = "return" THEN "ok" ELSE "raise",
                           value |-> IF d.at = "return" THEN "response" ELSE "",
                           port |-> answer, answers |-> d.answers, waits |-> d.waits]
    /\ UNCHANGED <<active_sessions, observed, used>>

\* the sleep a chat_completion call awaits is over: the loop goes on, or
\* ends and the function returns None
ChatCompletionWake(c) ==
    /\ c \in inflight
    /\ c.op = "chat_completion"
    /\ c.at = "sleep"
    /\ LET d == AfterSleep(c)
       IN  IF d.at = "post"
           THEN /\ inflight' = (inflight \ {c}) \cup {d}
                /\ UNCHANGED ret
           ELSE /\ inflight' = inflight \ {c}
                /\ ret' = [op |-> "chat_completion", sid |-> c.sid, kind |-> "ok",
                           value |-> "None", port |-> "none",
                           answers |-> d.answers, waits |-> d.waits]
    /\ UNCHANGED <<active_sessions, observed, used>>

\* one caller per session: a process call ends before the next begins
Next ==
    \/ \E sid \in SessionIds, i \in DOMAIN CandidateTexts :
          ProcessBegin(sid, CandidateTexts[i], 1, MaxCalls)
    \/ \E c \in inflight, o \in PortOutcomes : ProcessEnd(c, o)
    \/ \E sid \in SessionIds : OpeningBegin(sid)
    \/ \E c \in inflight, o \in PortOutcomes : OpeningEnd(c, o)
    \/ \E sid \in SessionIds : GetInterviewState(sid)
    \/ \E sid \in SessionIds, i \in FailedReportResponses :
          GenerateInterviewReport(sid, ReportResponses[i])

Spec == Init /\ [][Next]_vars

\* several callers per session: up to MaxInFlight process calls of one
\* session are suspended at their port round trip at the same time
NextConc ==
    \/ \E sid \in SessionIds, i \in DOMAIN CandidateTexts :
          ProcessBegin(sid, CandidateTexts[i], MaxInFlight, MaxCallsConc)
    \/ \E c \in inflight, o \in PortOutcomes : ProcessEnd(c, o)
    \/ \E sid \in SessionIds : OpeningBegin(sid)
    \/ \E c \in inflight, o \in PortOutcomes : OpeningEnd(c, o)
    \/ \E sid \in SessionIds : GetInterviewState(sid)
    \/ \E sid \in SessionIds, i \in FailedReportResponses :
          GenerateInterviewReport(sid, ReportResponses[i])

SpecConc == Init /\ [][NextConc]_vars

\* reports on short interviews: every response of ReportResponses, asked
\* for at any point of the first MaxCallsReport process calls
NextReport ==
    \/ \E sid \in SessionIds, i \in DOMAIN CandidateTexts :
          ProcessBegin(sid, CandidateTexts[i], 1, MaxCallsReport)
    \/ \E c \in inflight, o \in PortOutcomes : ProcessEnd(c, o)
    \/ \E sid \in SessionIds, i \in DOMAIN ReportResponses :
          GenerateInterviewReport(sid, ReportResponses[i])

SpecReport == Init /\ [][NextReport]_vars

\* the registry from the start of the process: no session
InitRegistry ==
    /\ active_sessions = << >>
    /\ inflight = {}
    /\ ret = [op |-> "init", sid |-> "", kind |-> "ok", value |-> "", port |-> "none"]
    /\ observed = [sid \in RegistryIds |-> << >>]
    /\ used = [sid \in RegistryIds |-> [calls |-> 0, odd |-> 0, bad |-> 0]]

\* several sessions, each driven by its own caller for its first
\* MaxCallsRegistry process calls with the nominal candidate text, and
\* requests for ids never issued or not issued yet
NextRegistry ==
    \/ \E req \in CommonUploadRequests, sid \in RegistryIds : UploadResume(req, sid)
    \/ \E op \in {"process", "state", "report"}, sid \in RegistryIds \cup UnknownIds :
          NotFound(op, sid)
    \/ \E sid \in RegistryIds : ProcessBegin(sid, CandidateTexts[1], 1, MaxCallsRegistry)
    \/ \E c \in inflight, o \in RegistryOutcomes : ProcessEnd(c, o)
    \/ \E sid \in RegistryIds : OpeningBegin(sid)
    \/ \E c \in inflight, o \in RegistryOutcomes : OpeningEnd(c, o)
    \/ \E sid \in RegistryIds : GetInterviewState(sid)
    \/ \E sid \in RegistryIds, i \in FailedReportResponses :
          GenerateInterviewReport(sid, ReportResponses[i])

SpecRegistry == InitRegistry /\ [][NextRegistry]_vars

\* one session from its registration to its completion and beyond
NextLifetime ==
    \/ \E req \in UploadRequests : UploadResume(req, "s1")
    \/ \E op \in {"process", "state", "report"} : NotFound(op, "s1")
    \/ \E i \in DOMAIN CandidateTexts : ProcessBegin("s1", CandidateTexts[i], 1, MaxCalls)
    \/ \E c \in inflight, o \in PortOutcomes : ProcessEnd(c, o)
    \/ GetInterviewState("s1")
    \/ \E i \in FailedReportResponses : GenerateInterviewReport("s1", ReportResponses[i])

SpecLifetime == InitRegistry /\ [][NextLifetime]_vars

\* job titles: one registered session whose job description is any of
\* JobDescriptions, reported on during its first MaxCallsTitle process calls
InitTitle ==
    /\ \E j \in DOMAIN JobDescriptions :
          active_sessions = [sid \in SessionIds |->
                               NewSession(sid, CandidateProfiles[1], j, 1)]
    /\ inflight = {}
    /\ ret = [op |-> "init", sid |-> "", kind |-> "ok", value |-> "", port |-> "none"]
    /\ observed = [sid \in SessionIds |-> << >>]
    /\ used = [sid \in SessionIds |-> [calls |-> 0, odd |-> 0, bad |-> 0]]

NextTitle ==
    \/ \E sid \in SessionIds, i \in DOMAIN CandidateTexts :
          ProcessBegin(sid, CandidateTexts[i], 1, MaxCallsTitle)
    \/ \E c \in inflight, o \in PortOutcomes : ProcessEnd(c, o)
    \/ \E sid \in SessionIds, i \in CommonReportResponses :
          GenerateInterviewReport(sid, ReportResponses[i])

SpecTitle == InitTitle /\ [][NextTitle]_vars

\* the port client of a session: up to MaxCallsRetry chat_completion calls,
\* which may overlap, each with any sequence of HTTP answers
NextRetry ==
    \/ \E sid \in SessionIds : ChatCompletionBegin(sid)
    \/ \E c \in inflight, answer \in HttpAnswers : ChatCompletionPost(c, answer)
    \/ \E c \in inflight : ChatCompletionWake(c)

SpecRetry == Init /\ [][NextRetry]_vars

\* a caller that keeps sending messages, one call at a time, to a port that
\* answers every request and answers with a non-empty text again and again
NextLive ==
    \/ \E sid \in SessionIds, i \in DOMAIN CandidateTexts :
          ProcessBegin(sid, CandidateTexts[i], 1, MaxCalls)
    \/ \E c \in inflight, o \in PortOutcomes : ProcessEnd(c, o)

SpecLive ==
    /\ Init
    /\ [][NextLive]_vars
    /\ WF_vars(\E sid \in SessionIds, i \in DOMAIN CandidateTexts :
                  ProcessBegin(sid, CandidateTexts[i], 1, MaxCalls))
    /\ WF_vars(\E c \in inflight, o \in PortOutcomes : ProcessEnd(c, o))
    /\ SF_vars(\E c \in inflight : ProcessEnd(c, NominalOutcome))

\* ------------------------------------------------ vocabulary of the claims
Agent(sid) == active_sessions[sid]

Idle(sid) == InFlightOf(sid) = {}

MaxQuestions(a) == PHASES[a.current_phase].max_questions

\* the step is the first half of a process_candidate_response call on sid
ProcessBeginStep(sid) == used'[sid].calls = used[sid].calls + 1

\* the step is the second half of a process_candidate_response call on sid
ProcessEndStep(sid) ==
    \E c \in inflight : c.sid = sid /\ c.op = "process" /\ c \notin inflight'

\* the step is a process call on sid that emitted the closing message
ClosingStep(sid) ==
    /\ ProcessBeginStep(sid)
    /\ inflight' = inflight
    /\ ret'.op = "process" /\ ret'.kind = "ok" /\ ret'.value = Closing

\* every port call of the session so far returned a non-empty message
AllNonEmpty(sid) == used[sid].bad = 0

\* ------------------------------------------------------------------ C1
\* C1: in every reachable state current_phase is in 1..4, and no step of
\* any operation (opening, process, state, report) decreases it.
C1_PhaseRangeMonotone ==
    /\ [](\A sid \in SessionIds : Agent(sid).current_phase \in 1..4)
    /\ [][\A sid \in SessionIds :
            Agent(sid)'.current_phase >= Agent(sid).current_phase]_vars

C1_Witness ==
    \E sid \in SessionIds :
        /\ Agent(sid).current_phase = 4
        /\ Agent(sid).status = "active"
        /\ used[sid].calls = 16
        /\ ret.op = "state"

\* ------------------------------------------------------------------ C2
\* C2: a process_candidate_response call changes current_phase by 0 or by
\* exactly +1 (in its first half; its second half leaves it alone), and a
\* call made in phase 4 leaves the phase at 4.
C2_PhaseStepsByOne ==
    [][\A sid \in SessionIds :
         LET p == Agent(sid).current_phase
             q == Agent(sid)'.current_phase
         IN  /\ ProcessBeginStep(sid) => q \in {p, p + 1}
             /\ ProcessEndStep(sid) => q = p
             /\ (ProcessBeginStep(sid) \/ ProcessEndStep(sid)) /\ p = 4 => q = 4]_vars

C2_Witness ==
    \E sid \in SessionIds :
        /\ Agent(sid).current_phase = 2
        /\ Agent(sid).questions_asked_in_phase = 0
        /\ ~Idle(sid)
        /\ used[sid].calls = 4

\* ------------------------------------------------------------------ C3
\* C3: a process call advances (increments the phase, or completes the
\* interview when the phase is 4) if and only if at its check
\* questions_asked_in_phase >= max_questions of the current phase; when the
\* condition is false the call leaves phase and status unchanged.
C3_AdvanceIffQuota ==
    [][\A sid \in SessionIds :
         LET a == Agent(sid)
             b == Agent(sid)'
             quota == a.questions_asked_in_phase >= MaxQuestions(a)
         IN  /\ ProcessBeginStep(sid) /\ quota /\ a.current_phase < 4 =>
                   /\ b.current_phase = a.current_phase + 1
                   /\ b.status = a.status
                   /\ ~ClosingStep(sid)
             /\ ProcessBeginStep(sid) /\ quota /\ a.current_phase = 4 =>
                   /\ b.current_phase = 4
                   /\ b.status = "completed"
                   /\ ClosingStep(sid)
             /\ ProcessBeginStep(sid) /\ ~quota =>
                   /\ b.current_phase = a.current_phase
                   /\ b.status = a.status
                   /\ ~ClosingStep(sid)
             /\ ProcessEndStep(sid) =>
                   /\ b.current_phase = a.current_phase
                   /\ b.status = a.status]_vars

C3_Witness ==
    \E sid \in SessionIds :
        /\ Agent(sid).current_phase = 3
        /\ Agent(sid).questions_asked_in_phase = 0
        /\ Agent(sid).total_questions = 9
        /\ ~Idle(sid)

\* ------------------------------------------------------------------ C4
\* C4: a step that increments the phase leaves questions_asked_in_phase at
\* exactly 0, and with sequential process calls questions_asked_in_phase
\* never exceeds max_questions of the current phase by more than 1.
C4_ResetAndBound ==
    /\ [][\A sid \in SessionIds :
            Agent(sid)'.current_phase # Agent(sid).current_phase =>
                Agent(sid)'.questions_asked_in_phase = 0]_vars
    /\ [](\A sid \in SessionIds :
            Agent(sid).questions_asked_in_phase <= MaxQuestions(Agent(sid)) + 1)

C4_Witness ==
    \E sid \in SessionIds :
        /\ Agent(sid).current_phase = 4
        /\ Agent(sid).questions_asked_in_phase = 0
        /\ Agent(sid).total_questions = 13
        /\ ~Idle(sid)

\* ------------------------------------------------------------------ C5
\* C5: total_questions never decreases; it changes, by exactly +1, in the
\* steps that end a process call with a non-empty port text and in no
\* other step (not in generate_opening, not in the closing turn, not when
\* the port fails or returns an empty result).
C5_TotalQuestionsSteps ==
    [][\A sid \in SessionIds :
         LET t == Agent(sid).total_questions
             u == Agent(sid)'.total_questions
             answered == /\ ProcessEndStep(sid)
                         /\ ret'.op = "process" /\ ret'.kind = "ok"
                         /\ ret'.value # ""
         IN  /\ u >= t
             /\ answered => u = t + 1
             /\ ~answered => u = t]_vars

C5_Witness ==
    \E sid \in SessionIds :
        /\ Agent(sid).total_questions = 3
        /\ used[sid].calls = 4
        /\ used[sid].bad = 1
        /\ Idle(sid)

\* ------------------------------------------------------------------ C6
\* C6 as stated: after exactly 16 process calls whose port calls all
\* returned a non-empty message, status is completed.
C6_Original ==
    \A sid \in SessionIds :
        used[sid].calls = 16 /\ AllNonEmpty(sid) /\ Idle(sid) =>
            Agent(sid).status = "completed"

\* C6 amended: with every port call returning a non-empty message, status
\* is still active after each of the first 16 process calls (the 16th
\* leaves total_questions = 16) and is completed after the 17th.
C6_CompletedOn17th ==
    \A sid \in SessionIds :
        AllNonEmpty(sid) /\ Idle(sid) =>
            /\ used[sid].calls <= 16 =>
                  /\ Agent(sid).status = "active"
                  /\ Agent(sid).total_questions = used[sid].calls
            /\ used[sid].calls >= 17 =>
                  /\ Agent(sid).status = "completed"
                  /\ Agent(sid).total_questions = 16

C6_Witness ==
    \E sid \in SessionIds :
        /\ used[sid].calls = 17
        /\ AllNonEmpty(sid)
        /\ Agent(sid).status = "completed"
        /\ Agent(sid).total_questions = 16

\* ------------------------------------------------------------------ C7
ObservedPhases(sid, n) == [i \in 1..n |-> observed[sid][i].current_phase]

NoneComplete(sid, n) == \A i \in 1..n : ~observed[sid][i].interview_complete

\* C7 as stated: 16 process calls with non-empty port results show the
\* phases 1,1,2,2,2,2,2,2,3,3,3,3,4,4,4 and completion on the 16th call.
C7_Original ==
    \A sid \in SessionIds :
        used[sid].calls = 16 /\ AllNonEmpty(sid) /\ Idle(sid) =>
            /\ Len(observed[sid]) = 16
            /\ ObservedPhases(sid, 15) = <<1, 1, 2, 2, 2, 2, 2, 2, 3, 3, 3, 3, 4, 4, 4>>
            /\ NoneComplete(sid, 15)
            /\ observed[sid][16].interview_complete

C7_Schedule == <<1, 1, 1, 2, 2, 2, 2, 2, 2, 3, 3, 3, 3, 4, 4, 4>>

\* C7 amended: with every port call returning a non-empty message, the
\* phase observed after the calls is 1,1,1,2,2,2,2,2,2,3,3,3,3,4,4,4 with
\* the interview not complete, and the 17th call reports completion with
\* total_questions = 16.
C7_ObservedSchedule ==
    \A sid \in SessionIds :
        AllNonEmpty(sid) /\ Idle(sid) =>
            /\ Len(observed[sid]) = used[sid].calls
            /\ \A i \in 1..Len(observed[sid]) :
                  /\ i <= 16 => /\ observed[sid][i].current_phase = C7_Schedule[i]
                                /\ ~observed[sid][i].interview_complete
                                /\ observed[sid][i].total_questions = i
                  /\ i >= 17 => /\ observed[sid][i].interview_complete
                                /\ observed[sid][i].current_phase = 4
                                /\ observed[sid][i].total_questions = 16

C7_Witness ==
    \E sid \in SessionIds :
        /\ AllNonEmpty(sid)
        /\ Len(observed[sid]) = 17
        /\ observed[sid][17].interview_complete
        /\ ~observed[sid][16].interview_complete

\* ------------------------------------------------------------------ C8
\* C8: with sequential process calls, whenever status is completed
\* total_questions is 16, whatever port failures and empty results came
\* before.
C8_CompletedMeans16 ==
    \A sid \in SessionIds :
        Agent(sid).status = "completed" => Agent(sid).total_questions = 16

C8_Witness ==
    \E sid \in SessionIds :
        /\ Agent(sid).status = "completed"
        /\ used[sid].bad = 1
        /\ used[sid].calls = 18

\* ------------------------------------------------------------------ C9
\* C9: completed is absorbing: no step of any operation takes status from
\* completed to anything else.
C9_CompletedAbsorbing ==
    [][\A sid \in SessionIds :
         Agent(sid).status = "completed" => Agent(sid)'.status = "completed"]_vars

C9_Witness ==
    \E sid \in SessionIds :
        /\ Agent(sid).status = "completed"
        /\ Len(observed[sid]) = 18
        /\ observed[sid][17].interview_complete
        /\ ret.op = "process"

\* ------------------------------------------------------------------ C10
\* C10: status starts active; a step changes it only to completed and only
\* as a process call that finds current_phase = 4 with
\* questions_asked_in_phase >= 3; status is never paused.
C10_StatusLifecycle ==
    /\ \A sid \in SessionIds : Agent(sid).status = "active"
    /\ [][\A sid \in SessionIds :
            Agent(sid)'.status # Agent(sid).status =>
                /\ Agent(sid)'.status = "completed"
                /\ ClosingStep(sid)
                /\ Agent(sid).current_phase = 4
                /\ Agent(sid).questions_asked_in_phase >= 3]_vars
    /\ [](\A sid \in SessionIds : Agent(sid).status \in {"active", "completed"})

C10_Witness ==
    \E sid \in SessionIds :
        /\ Agent(sid).status = "completed"
        /\ ret.op = "process"
        /\ ret.value = Closing
        /\ used[sid].calls = 17

\* ------------------------------------------------ vocabulary, continued
History(sid) == Agent(sid).conversation_history

IsPrefix(s, t) == Len(s) <= Len(t) /\ \A i \in 1..Len(s) : s[i] = t[i]

\* the process calls of sid that return or raise in this step
EndingProcessCalls(sid) ==
    {c \in inflight : c.sid = sid /\ c.op = "process" /\ c \notin inflight'}

\* the generate_opening calls of sid that return or raise in this step
EndingOpeningCalls(sid) ==
    {c \in inflight : c.sid = sid /\ c.op = "opening" /\ c \notin inflight'}

\* the step is the first half of a generate_opening call on sid
OpeningBeginStep(sid) ==
    \E c \in inflight' : c.sid = sid /\ c.op = "opening" /\ c \notin inflight

\* the phase number written on the last line of a system prompt
PromptPhase(prompt) ==
    IF prompt = "Phase 1 prompt" THEN 1
    ELSE IF prompt = "Phase 2 prompt" THEN 2
    ELSE IF prompt = "Phase 3 prompt" THEN 3
    ELSE IF prompt = "Phase 4 prompt" THEN 4
    ELSE 0

\* ------------------------------------------------------------------ C11
\* C11 as stated: a process_candidate_response call issued when status is
\* completed changes no part of the session state.
C11_Original ==
    [][\A sid \in SessionIds :
         ProcessBeginStep(sid) /\ Agent(sid).status = "completed" =>
             Agent(sid)' = Agent(sid)]_vars

\* ------------------------------------------------------------------ C12
\* C12: every process call appends one user message carrying a candidate
\* text right after the transcript it found, and that entry is still there
\* when the call returns or raises, whatever the port produced.
C12_UserMessageRecorded ==
    [][\A sid \in SessionIds :
         LET h == History(sid)
             g == History(sid)'
             n == Len(h)
         IN  /\ ProcessBeginStep(sid) =>
                   /\ Len(g) >= n + 1
                   /\ IsPrefix(h, g)
                   /\ g[n + 1].role = "user"
                   /\ \E i \in DOMAIN CandidateTexts : g[n + 1].content = CandidateTexts[i]
             /\ \A c \in EndingProcessCalls(sid) :
                   LET m == Len(c.before.conversation_history)
                   IN  /\ Len(g) >= m + 1
                       /\ IsPrefix(c.before.conversation_history, g)
                       /\ g[m + 1].role = "user"]_vars

C12_Witness ==
    \E sid \in SessionIds :
        /\ ret.op = "process" /\ ret.kind = "raise"
        /\ Len(History(sid)) = 5
        /\ History(sid)[5].role = "user"
        /\ Agent(sid).total_questions = 2

\* ------------------------------------------------------------------ C13
\* C13: when the port fails in a process call the call raises, the
\* transcript is the one before the call plus exactly one user entry, and
\* neither total_questions nor questions_asked_in_phase is incremented.
C13_PortFailure ==
    [][\A sid \in SessionIds : \A c \in EndingProcessCalls(sid) :
         ret'.port = "error" =>
             LET b == c.before
                 a == Agent(sid)'
                 m == Len(b.conversation_history)
             IN  /\ ret'.op = "process" /\ ret'.kind = "raise"
                 /\ Len(a.conversation_history) = m + 1
                 /\ IsPrefix(b.conversation_history, a.conversation_history)
                 /\ a.conversation_history[m + 1].role = "user"
                 /\ a.total_questions = b.total_questions
                 /\ a.questions_asked_in_phase <= b.questions_asked_in_phase]_vars

C13_Witness ==
    \E sid \in SessionIds :
        /\ ret.op = "process" /\ ret.port = "error" /\ ret.kind = "raise"
        /\ Len(History(sid)) = 7
        /\ History(sid)[7].role = "user"
        /\ Agent(sid).total_questions = 3

\* ------------------------------------------------------------------ C14
\* the agent right after step 1 of a call: the pre-call agent with one
\* more user entry
AfterUserAppend(b, entry) ==
    [b EXCEPT !.conversation_history = Append(@, entry)]

\* C14 as stated: a process call whose port round trip fails leaves the
\* session state as it was right after the user-message append, so it
\* differs from the pre-call state by that one user entry only.
C14_Original ==
    [][\A sid \in SessionIds : \A c \in EndingProcessCalls(sid) :
         ret'.port = "error" =>
             LET m == Len(c.before.conversation_history)
             IN  /\ Len(History(sid)') = m + 1
                 /\ Agent(sid)' = AfterUserAppend(c.before, History(sid)'[m + 1])]_vars

\* C14 amended: after such a call total_questions and status are as before
\* the call and the transcript has exactly the one user entry more;
\* current_phase, questions_asked_in_phase and the system instruction are
\* as before the call too, unless the call found the quota of a phase
\* below 4 reached: then the phase increment, the reset to 0 and the
\* rebuilt instruction made before the port call are kept.
C14_FailedCallKeepsStep2 ==
    [][\A sid \in SessionIds : \A c \in EndingProcessCalls(sid) :
         ret'.port = "error" =>
             LET b == c.before
                 a == Agent(sid)'
                 m == Len(b.conversation_history)
                 crossed == b.questions_asked_in_phase >= MaxQuestions(b)
             IN  /\ Len(a.conversation_history) = m + 1
                 /\ IsPrefix(b.conversation_history, a.conversation_history)
                 /\ a.conversation_history[m + 1].role = "user"
                 /\ a.total_questions = b.total_questions
                 /\ a.status = b.status
                 /\ ~crossed =>
                       a = AfterUserAppend(b, a.conversation_history[m + 1])
                 /\ crossed =>
                       /\ b.current_phase < 4
                       /\ a.current_phase = b.current_phase + 1
                       /\ a.questions_asked_in_phase = 0
                       /\ PromptPhase(a.system_prompt) = b.current_phase + 1]_vars

C14_Witness ==
    \E sid \in SessionIds :
        /\ ret.op = "process" /\ ret.port = "error"
        /\ Agent(sid).current_phase = 2
        /\ Agent(sid).questions_asked_in_phase = 0
        /\ Agent(sid).total_questions = 3
        /\ Idle(sid)

C16_OpeningFrame ==
    [][\A sid \in SessionIds :
         /\ OpeningBeginStep(sid) => Agent(sid)' = Agent(sid)
         /\ \A c \in EndingOpeningCalls(sid) :
               /\ ret'.op = "opening"
               /\ ret'.port = "text" =>
                     /\ ret'.kind = "ok"
                     /\ Agent(sid)' =
                          [c.before EXCEPT !.conversation_history =
                              Append(@, [role |-> "assistant", content |-> ret'.value])]
               /\ ret'.port # "text" =>
                     /\ ret'.kind = "raise"
                     /\ Agent(sid)' = c.before]_vars

C16_Witness ==
    \E sid \in SessionIds :
        /\ ret.op = "opening" /\ ret.kind = "ok" /\ ret.port = "text"
        /\ Agent(sid).total_questions = 2
        /\ Len(History(sid)) = 5
        /\ History(sid)[5].role = "assistant"

\* ------------------------------------------------------------------ C17
\* C17: the request of a process call is the current system instruction
\* followed by the last min(10, n) of the n transcript entries, in order
\* and whatever their roles; it carries at most 10 of them and ends with
\* the user entry that call appended.
C17_RequestWindow ==
    \A c \in inflight :
        c.op = "process" =>
            LET h == History(c.sid)
                n == Len(h)
                k == IF n < 10 THEN n ELSE 10
                m == c.messages
            IN  /\ Len(m) = k + 1
                /\ Len(m) <= 11
                /\ m[1] = [role |-> "system", content |-> Agent(c.sid).system_prompt]
                /\ \A i \in 1..k : m[1 + i] = h[n - k + i]
                /\ n = Len(c.before.conversation_history) + 1
                /\ m[k + 1] = h[n]
                /\ h[n].role = "user"

C17_Witness ==
    \E c \in inflight :
        /\ c.op = "process"
        /\ Len(History(c.sid)) = 14
        /\ History(c.sid)[1].role = "assistant"
        /\ c.messages[2].role = "assistant"
        /\ c.messages[11].role = "user"

\* ------------------------------------------------------------------ C18
\* C18: the phase number in the system instruction is current_phase in
\* every reachable state, and the request of every suspended call carries
\* the instruction of the phase the agent is in, also when that call has
\* just crossed a phase boundary.
C18_PromptTracksPhase ==
    \A sid \in SessionIds :
        /\ PromptPhase(Agent(sid).system_prompt) = Agent(sid).current_phase
        /\ \A c \in InFlightOf(sid) :
              /\ c.messages[1].role = "system"
              /\ PromptPhase(c.messages[1].content) = Agent(sid).current_phase

C18_Witness ==
    \E c \in inflight :
        /\ c.op = "process"
        /\ c.before.current_phase = 2
        /\ Agent(c.sid).current_phase = 3
        /\ PromptPhase(c.messages[1].content) = 3

\* ------------------------------------------------------------------ C19
\* C19: the transcript is append-only: after every step the previous
\* conversation_history is a prefix of the new one.
C19_AppendOnly ==
    [][\A sid \in SessionIds : IsPrefix(History(sid), History(sid)')]_vars

C19_Witness ==
    \E sid \in SessionIds :
        /\ Len(History(sid)) = 37
        /\ History(sid)[35].content = Closing
        /\ History(sid)[37].content = Closing
        /\ History(sid)[1].role = "assistant"

\* ------------------------------------------------------------------ C20
\* a returned value has the shape and the field constraints of
\* InterviewReport
WellFormedReport(rep) ==
    /\ rep.overall_score >= 0 /\ rep.overall_score <= 1000
    /\ rep.recommendation \in {"strong_yes", "yes", "maybe", "no", "strong_no"}
    /\ \A i \in 1..Len(rep.phase_scores) : rep.phase_scores[i].phase_number \in 1..4

\* C20: generate_report returns an InterviewReport and never raises,
\* whatever the port produced (a failure, a malformed response shape,
\* unparseable JSON, missing keys, out-of-range values); when the result
\* cannot be parsed the report has overall_score 5.0 and recommendation
\* maybe.
C20_ReportTotal ==
    ret.op = "report" =>
        /\ ret.kind = "ok"
        /\ Len(ret.value) = 1
        /\ WellFormedReport(ret.value[1])
        /\ ret.value[1].session_id = ret.sid
        /\ ret.input.label \in {"port_failure", "malformed_shape", "unparseable"} =>
              /\ ret.value[1].overall_score = 500
              /\ ret.value[1].recommendation = "maybe"

C20_Witness ==
    /\ ret.op = "report"
    /\ ret.input.label = "unparseable"
    /\ Len(ret.input.tokens) = 4
    /\ ret.value[1].overall_score = 500
    /\ ret.value[1].recommendation = "maybe"
    /\ \E sid \in SessionIds : Agent(sid).total_questions = 2

\* ------------------------------------------------------------------ C21
\* the last operation returned a report for a response that did not yield
\* an assessment
FallbackReturned ==
    ret.op = "report" /\ ret.kind = "ok" /\ ret.input.label # "valid"

\* C21: the fallback report has exactly 4 phase entries, numbered 1..4 in
\* catalog order, each with the four sub-scores and the average equal to
\* 5.0, whatever the session's current_phase and status.
C21_FallbackPhases ==
    FallbackReturned =>
        LET ps == ret.value[1].phase_scores
        IN  /\ Len(ps) = 4
            /\ \A i \in 1..4 :
                  /\ ps[i].phase_number = i
                  /\ ps[i].phase_name = PHASES[i].name
                  /\ ps[i].technical_accuracy = 500
                  /\ ps[i].problem_solving = 500
                  /\ ps[i].communication = 500
                  /\ ps[i].depth_of_knowledge = 500
                  /\ ps[i].average_score = 500

C21_Witness ==
    /\ FallbackReturned
    /\ Len(ret.value[1].phase_scores) = 4
    /\ Agent(ret.sid).status = "completed"
    /\ Agent(ret.sid).current_phase = 4

\* a fallback report is also produced for a session still in phase 1
C21_WitnessEarly ==
    /\ FallbackReturned
    /\ Len(ret.value[1].phase_scores) = 4
    /\ Agent(ret.sid).status = "active"
    /\ Agent(ret.sid).current_phase = 1

\* ------------------------------------------------------------------ C22
\* the last operation returned a report built from a parsed assessment
AssessmentReturned ==
    ret.op = "report" /\ ret.kind = "ok" /\ ret.input.label = "valid"

\* the JSON object the port's response carried
UpstreamObject ==
    LET ts == ret.input.tokens
    IN  ts[CHOOSE i \in 1..Len(ts) : ts[i].t = "doc"].data.obj

\* C22: in a non-fallback report every phase entry's average_score is
\* (technical_accuracy + problem_solving + communication +
\* depth_of_knowledge) / 4 of the reported sub-scores, even when the
\* upstream result supplied a different average.
C22_AverageRecomputed ==
    AssessmentReturned =>
        LET ps == ret.value[1].phase_scores
        IN  \A i \in 1..Len(ps) :
               4 * ps[i].average_score =
                  ps[i].technical_accuracy + ps[i].problem_solving
                  + ps[i].communication + ps[i].depth_of_knowledge

C22_Witness ==
    /\ AssessmentReturned
    /\ "phase_scores" \in DOMAIN UpstreamObject
    /\ Len(ret.value[1].phase_scores) = 2
    /\ UpstreamObject.phase_scores[1].average_score = 1000
    /\ ret.value[1].phase_scores[1].average_score = 450
    /\ "average_score" \notin DOMAIN UpstreamObject.phase_scores[2]
    /\ ret.value[1].phase_scores[2].average_score = 750

\* ------------------------------------------------------------------ C23
\* the title a role line yields: the line itself when it is non-empty,
\* shorter than 100 characters and names a role keyword in any case, the
\* default title otherwise
TitleFromLine(line) ==
    IF /\ line # << >>
       /\ Len(line) < 100
       /\ \E keyword \in RoleKeywords : Contains(Lower(line), keyword)
    THEN line
    ELSE <<"S", "o", "f", "t", "w", "a", "r", "e", " ",
           "E", "n", "g", "i", "n", "e", "e", "r">>

\* the last operation returned a report (parsed or fallback)
ReportReturned == ret.op = "report" /\ ret.kind = "ok"

\* C23 as stated: the title is decided by, and taken from, the first line
\* of the job description as it stands.
C23_Original ==
    ReportReturned =>
        ret.value[1].job_title = TitleFromLine(FirstLine(JobDescriptions[Agent(ret.sid).job_description]))

\* C23: the derived job title is the first line of the job description
\* with its leading and trailing whitespace removed when that trimmed
\* line is non-empty, shorter than 100 characters and contains one of the
\* role keywords (case-insensitive); in every other case it is the default
\* title "Software Engineer".
C23_JobTitle ==
    ReportReturned =>
        ret.value[1].job_title =
            TitleFromLine(Strip(FirstLine(JobDescriptions[Agent(ret.sid).job_description])))

C23_Witness ==
    /\ ReportReturned
    /\ Len(FirstLine(JobDescriptions[Agent(ret.sid).job_description])) = 100
    /\ Len(ret.value[1].job_title) = 95
    /\ ret.value[1].job_title = Strip(FirstLine(JobDescriptions[Agent(ret.sid).job_description]))

\* a trimmed line of exactly 100 characters yields the default title
C23_WitnessDefault ==
    /\ ReportReturned
    /\ Len(Strip(FirstLine(JobDescriptions[Agent(ret.sid).job_description]))) = 100
    /\ Len(ret.value[1].job_title) = 17

\* ------------------------------------------------------------------ C24
\* the step answered an operation op' on sid: the answer is a new one
Answered(sid, ops) ==
    /\ ret'.sid = sid
    /\ ret'.op \in ops
    /\ <<ret'.op, ret'.sid, ret'.kind>> # <<ret.op, ret.sid, ret.kind>>

\* C24: a message, status or report request for a session id that is not
\* in the registry is answered NotFound (HTTP 404) and changes neither the
\* registry nor the state of any session.
C24_NotFound ==
    [][\A sid \in RegistryIds \cup UnknownIds :
          (sid \notin DOMAIN active_sessions /\ Answered(sid, {"process", "state", "report"}))
          => /\ ret'.kind = "http"
             /\ ret'.status = 404
             /\ active_sessions' = active_sessions
             /\ inflight' = inflight]_vars

C24_Witness ==
    /\ ret.kind = "http"
    /\ ret.status = 404
    /\ ret.op = "process"
    /\ ret.sid = "s2"
    /\ DOMAIN active_sessions = {"s1"}
    /\ active_sessions["s1"].total_questions = 1

\* ------------------------------------------------------------------ C25
\* the step is part of an operation that writes to session sid: one of its
\* calls begins or ends
StepOn(sid) ==
    \/ InFlightOf(sid)' # InFlightOf(sid)
    \/ used'[sid] # used[sid]

\* C25: sessions are independent: whatever the interleaving, a registered
\* session's phase, counters, transcript and status (all of its fields)
\* change only in a step of an operation on that very session, and such a
\* step leaves every other registered session as it was; a registration
\* leaves every registered session as it was.
C25_Independent ==
    [][\A t \in DOMAIN active_sessions :
          /\ t \in DOMAIN active_sessions'
          /\ active_sessions'[t] # active_sessions[t]
             => /\ StepOn(t)
                /\ \A s \in (DOMAIN active_sessions) \ {t} :
                      /\ ~StepOn(s)
                      /\ active_sessions'[s] = active_sessions[s]]_vars

C25_Witness ==
    /\ DOMAIN active_sessions = {"s1", "s2"}
    /\ active_sessions["s1"].total_questions = 1
    /\ Len(active_sessions["s1"].conversation_history) = 2
    /\ \E c \in inflight : c.sid = "s2" /\ c.op = "process"
    /\ Len(active_sessions["s2"].conversation_history) = 1
    /\ active_sessions["s2"].total_questions = 0

C27_NewSession ==
    [][\A sid \in RegistryIds :
          (sid \notin DOMAIN active_sessions /\ sid \in DOMAIN active_sessions')
          => /\ active_sessions'[sid].current_phase = 1
             /\ active_sessions'[sid].questions_asked_in_phase = 0
             /\ active_sessions'[sid].total_questions = 0
             /\ active_sessions'[sid].conversation_history = << >>
             /\ active_sessions'[sid].status = "active"
             /\ inflight' = inflight
             /\ InFlightOf(sid)' = {}]_vars

C27_Witness ==
    /\ ret.op = "upload"
    /\ ret.kind = "ok"
    /\ ret.sid = "s2"
    /\ DOMAIN active_sessions = {"s1", "s2"}
    /\ active_sessions["s2"].current_phase = 1
    /\ active_sessions["s2"].conversation_history = << >>
    /\ active_sessions["s1"].total_questions = 1

\* ------------------------------------------------------------------ C28
\* C28: session_id, candidate_profile, job_description and started_at are
\* fixed at creation: no step of an opening, process, state or report
\* operation changes them.
C28_FixedAtCreation ==
    [][\A sid \in SessionIds :
          /\ Agent(sid).session_id' = Agent(sid).session_id
          /\ Agent(sid).candidate_profile' = Agent(sid).candidate_profile
          /\ Agent(sid).job_description' = Agent(sid).job_description
          /\ Agent(sid).started_at' = Agent(sid).started_at]_vars

C28_Witness ==
    \E sid \in SessionIds :
        /\ Agent(sid).status = "completed"
        /\ Agent(sid).session_id = sid
        /\ Agent(sid).started_at = 1
        /\ Agent(sid).job_description = 1
        /\ Agent(sid).conversation_history[1].role = "assistant"
        /\ ret.op = "state"

\* ------------------------------------------------------------------ C29
\* the step is a get_interview_state on sid
StateReadStep(sid) ==
    /\ ret'.op = "state" /\ ret'.sid = sid
    /\ ret.op = "state" => ret'.value # ret.value \/ ret'.sid # ret.sid

\* the step is a report generation on sid
ReportStep(sid) ==
    /\ ret'.op = "report" /\ ret'.sid = sid
    /\ ret.op = "report" => ret'.input # ret.input \/ ret'.sid # ret.sid

\* C29: get_interview_state and report generation are pure reads: the
\* snapshot carries the session's current phase, total_questions,
\* transcript and status, neither operation changes a field of any
\* session, so that a report can be generated for an active session and
\* again after a report.
C29_PureReads ==
    [][\A sid \in SessionIds :
          /\ StateReadStep(sid)
             => /\ active_sessions' = active_sessions
                /\ inflight' = inflight
                /\ ret'.value.current_phase = Agent(sid).current_phase
                /\ ret'.value.total_questions = Agent(sid).total_questions
                /\ ret'.value.conversation_history = Agent(sid).conversation_history
                /\ ret'.value.status = Agent(sid).status
          /\ ReportStep(sid)
             => /\ active_sessions' = active_sessions
                /\ inflight' = inflight]_vars

C29_Witness ==
    \E sid \in SessionIds :
        /\ ret.op = "report"
        /\ ret.kind = "ok"
        /\ ret.sid = sid
        /\ Agent(sid).status = "active"
        /\ Len(Agent(sid).conversation_history) = 22
        /\ ret.again

\* a snapshot of a transcript longer than 20 messages
C29_WitnessState ==
    \E sid \in SessionIds :
        /\ ret.op = "state"
        /\ ret.sid = sid
        /\ Len(ret.value.conversation_history) = 22
        /\ ret.value.conversation_history = Agent(sid).conversation_history

\* ------------------------------------------------------------------ C30
\* C30 as stated: an upload without a job description, or of a file that
\* is not a PDF, is answered with a validation error (HTTP 400) and
\* registers no session.
C30_Original ==
    (ret.op = "upload" /\ (ret.input.job_description = 0 \/ ~ret.input.pdf))
    => /\ ret.kind = "http"
       /\ ret.status = 400
       /\ ret.sid = ""

\* ------------------------------------------------------------------ C31
\* the questions the phases before `phase` ask when each runs to its quota
QuotaBefore(phase) ==
    IF phase = 1 THEN 0
    ELSE IF phase = 2 THEN PHASES[1].max_questions
    ELSE IF phase = 3 THEN PHASES[1].max_questions + PHASES[2].max_questions
    ELSE PHASES[1].max_questions + PHASES[2].max_questions + PHASES[3].max_questions

\* C31: with sequential process calls, in every reachable state
\* total_questions is the sum of max_questions of the phases before
\* current_phase plus questions_asked_in_phase, and
\* questions_asked_in_phase is between 0 and max_questions of the current
\* phase.
C31_CountersAgree ==
    \A sid \in SessionIds :
        LET a == Agent(sid)
        IN  /\ a.total_questions =
                   QuotaBefore(a.current_phase) + a.questions_asked_in_phase
            /\ 0 <= a.questions_asked_in_phase
            /\ a.questions_asked_in_phase <= MaxQuestions(a)

C31_Witness ==
    \E sid \in SessionIds :
        /\ Agent(sid).current_phase = 3
        /\ Agent(sid).questions_asked_in_phase = 2
        /\ Agent(sid).total_questions = 11
        /\ used[sid].bad = 1
        /\ Idle(sid)

\* the phase was incremented before a failed port call and the counters
\* still agree
C31_WitnessAdvancedThenFailed ==
    \E sid \in SessionIds :
        /\ ret.op = "process" /\ ret.kind = "raise"
        /\ Agent(sid).current_phase = 4
        /\ Agent(sid).questions_asked_in_phase = 0
        /\ Agent(sid).total_questions = 13

C33_EmptyPortText ==
    [][\A sid \in SessionIds : \A c \in EndingProcessCalls(sid) :
         ret'.port = "text" /\ ret'.value = "" =>
             LET b == c.before
                 a == Agent(sid)'
                 m == Len(b.conversation_history)
                 crossed == b.questions_asked_in_phase >= MaxQuestions(b)
             IN  /\ ret'.op = "process" /\ ret'.kind = "ok"
                 /\ Agent(sid)' = Agent(sid)
                 /\ Len(a.conversation_history) = m + 1
                 /\ a.conversation_history[m + 1].role = "user"
                 /\ a.total_questions = b.total_questions
                 /\ ~crossed =>
                       /\ a.current_phase = b.current_phase
                       /\ a.questions_asked_in_phase = b.questions_asked_in_phase
                 /\ crossed =>
                       /\ a.current_phase = b.current_phase + 1
                       /\ a.questions_asked_in_phase = 0]_vars

C33_Witness ==
    \E sid \in SessionIds :
        /\ ret.op = "process" /\ ret.port = "text" /\ ret.kind = "ok"
        /\ ret.value = ""
        /\ Agent(sid).current_phase = 2
        /\ Agent(sid).questions_asked_in_phase = 0
        /\ Agent(sid).total_questions = 3
        /\ Len(History(sid)) = 7
        /\ History(sid)[7].role = "user"
        /\ Idle(sid)

\* ------------------------------------------------------------------ C34
\* the port requests of sid issued in this step
Requested(sid) == InFlightOf(sid)' \ InFlightOf(sid)

\* the step delivers a failure or an empty result of the port to a process
\* call of sid
BadAnswerStep(sid) == used'[sid].bad = used[sid].bad + 1

\* C34: each process call invokes the port at most once, and not at all
\* when it emits the closing message; a port request is issued only where
\* a call begins, and the step that delivers a failed (or empty) port
\* result to the call ends that call's request without issuing another.
C34_OnePortCall ==
    [][\A sid \in SessionIds :
         /\ Cardinality(Requested(sid)) <= 1
         /\ Requested(sid) # {} => ProcessBeginStep(sid) \/ OpeningBeginStep(sid)
         /\ ClosingStep(sid) => Requested(sid) = {} /\ ret'.port = "none"
         /\ ProcessBeginStep(sid) /\ ~ClosingStep(sid) =>
               \E c \in Requested(sid) : c.op = "process"
         /\ BadAnswerStep(sid) =>
               /\ Requested(sid) = {}
               /\ \E c \in InFlightOf(sid) :
                     /\ c.op = "process"
                     /\ InFlightOf(sid)' = InFlightOf(sid) \ {c}]_vars

C34_Witness ==
    \E sid \in SessionIds :
        /\ ret.op = "process" /\ ret.kind = "raise" /\ ret.port = "error"
        /\ used[sid].calls = 5
        /\ used[sid].bad = 1
        /\ Agent(sid).total_questions = 4
        /\ Idle(sid)

\* the closing turn: the call ended where it began, with no port request
C34_WitnessClosing ==
    \E sid \in SessionIds :
        /\ ret.op = "process" /\ ret.port = "none" /\ ret.value = Closing
        /\ used[sid].calls = 17
        /\ Idle(sid)

\* ------------------------------------------------------------------ C35
\* C35: if the caller keeps issuing sequential process calls and the port
\* keeps answering, with a non-empty message again and again (failures and
\* empty results are finitely many in a row), the session eventually
\* reaches status completed.
C35_EventuallyCompleted ==
    <>(\A sid \in SessionIds : Agent(sid).status = "completed")

C35_Witness ==
    \E sid \in SessionIds :
        /\ Agent(sid).status = "completed"
        /\ used[sid].bad = 1
        /\ used[sid].calls = 18
        /\ Agent(sid).total_questions = 16
        /\ Len(observed[sid]) = 17

\* ------------------------------------------------------------------ C36
\* C36 as stated: when process calls on the same session overlap,
\* questions_asked_in_phase never exceeds max_questions of the current
\* phase and total_questions never exceeds 16.
C36_Original ==
    \A sid \in SessionIds :
        /\ Agent(sid).questions_asked_in_phase <= MaxQuestions(Agent(sid))
        /\ Agent(sid).total_questions <= 16

\* ------------------------------------------------------------------ C37
\* the process calls of sid that returned a non-empty port text, by their
\* place among the calls that returned
PortReplies(sid) ==
    {i \in DOMAIN observed[sid] :
        observed[sid][i].message \notin {Closing, "Interview completed"}}

\* C37: under any interleaving of overlapping process calls on one
\* session, total_questions is the number of process calls that appended
\* a port result as an assistant message, current_phase stays in 1..4, and
\* a call that appends its assistant reply appends it as the last entry,
\* after the user message the same call appended when it began, and
\* counts it once.
C37_NoLostUpdate ==
    /\ [](\A sid \in SessionIds :
            /\ Agent(sid).total_questions = Cardinality(PortReplies(sid))
            /\ Agent(sid).current_phase \in 1..4)
    /\ [][\A sid \in SessionIds : \A c \in EndingProcessCalls(sid) :
            LET h == History(sid)
                g == History(sid)'
                m == Len(c.before.conversation_history)
            IN  IF ret'.kind = "ok" /\ ret'.value # ""
                THEN /\ g = Append(h, [role |-> "assistant", content |-> ret'.value])
                     /\ m + 1 <= Len(h)
                     /\ h[m + 1].role = "user"
                     /\ Agent(sid)'.total_questions = Agent(sid).total_questions + 1
                ELSE /\ g = h
                     /\ Agent(sid)'.total_questions = Agent(sid).total_questions]_vars

\* two calls overlapped and both replies were counted
C37_Witness ==
    \E sid \in SessionIds :
        /\ Agent(sid).total_questions = 2
        /\ Len(History(sid)) = 4
        /\ History(sid)[1].role = "user"
        /\ History(sid)[2].role = "user"
        /\ History(sid)[3].role = "assistant"
        /\ History(sid)[4].role = "assistant"
        /\ Idle(sid)

\* the overlap took questions_asked_in_phase past the quota and the total
\* still counts every reply
C37_WitnessPastQuota ==
    \E sid \in SessionIds :
        /\ Agent(sid).current_phase = 1
        /\ Agent(sid).questions_asked_in_phase = 4
        /\ Agent(sid).total_questions = 4
        /\ Cardinality(PortReplies(sid)) = 4

\* ------------------------------------------------------------------ C38
SubScores(ph) ==
    {ph.technical_accuracy, ph.problem_solving, ph.communication, ph.depth_of_knowledge}

\* the report is the one _generate_fallback_report builds, whatever the
\* session
IsFallback(rep) ==
    /\ rep.overall_score = FallbackScore
    /\ rep.recommendation = "maybe"
    /\ rep.raw_analysis = << >>
    /\ rep.key_highlights = <<"Interview session completed">>
    /\ \A i \in 1..Len(rep.phase_scores) : SubScores(rep.phase_scores[i]) = {FallbackScore}

\* C38: every report generate_report returns, fallback or not, has
\* overall_score within 0..10, a recommendation among strong_yes, yes,
\* maybe, no, strong_no, and every sub-score within 0..10; for a port
\* result that violates any of these the fallback report is returned.
C38_ReportRanges ==
    ret.op = "report" =>
        /\ ret.kind = "ok"
        /\ Len(ret.value) = 1
        /\ LET rep == ret.value[1]
           IN  /\ rep.overall_score >= 0 /\ rep.overall_score <= 1000
               /\ rep.recommendation \in {"strong_yes", "yes", "maybe", "no", "strong_no"}
               /\ \A i \in 1..Len(rep.phase_scores) :
                     \A x \in SubScores(rep.phase_scores[i]) : x >= 0 /\ x <= 1000
               /\ ret.input.label = "out_of_range" => IsFallback(rep)

\* the response whose only fault is a communication score of 11 was
\* answered with the fallback report
C38_Witness ==
    /\ ret.op = "report" /\ ret.kind = "ok"
    /\ ret.input = ReportResponses[20]
    /\ ret.input.label = "out_of_range"
    /\ IsFallback(ret.value[1])
    /\ \E sid \in SessionIds : Agent(sid).total_questions = 2

\* a response within the ranges was answered with its own scores
C38_WitnessValid ==
    /\ ret.op = "report" /\ ret.kind = "ok"
    /\ ret.input.label = "valid"
    /\ ~IsFallback(ret.value[1])
    /\ \E i \in 1..Len(ret.value[1].phase_scores) :
          {0, 1000} \subseteq SubScores(ret.value[1].phase_scores[i])

\* ------------------------------------------------------------------ C39
\* the HTTP answers a chat_completion call has got so far, and the waits
\* it made, are those of a call that retries after an HTTP status error
\* only and waits 2^attempt seconds before the next attempt
RetriedProperly(answers, waits) ==
    /\ Len(answers) <= max_retries
    /\ \A i \in 1..(Len(answers) - 1) : answers[i] = "status_error"
    /\ \A i \in 1..Len(waits) : waits[i] = 2 ^ (i - 1)

\* C39: chat_completion makes at most max_retries HTTP attempts per call;
\* it makes another attempt only after an HTTP status error, 2^attempt
\* seconds later; it raises when the last attempt fails, returns the first
\* successful response without a further attempt, and raises at once,
\* without another attempt, on any other error.
C39_BoundedRetry ==
    /\ \A c \in inflight :
          c.op = "chat_completion" =>
              /\ RetriedProperly(c.answers, c.waits)
              /\ c.attempt < max_retries
              /\ \A i \in 1..Len(c.answers) : c.answers[i] = "status_error"
              /\ c.at = "post" => Len(c.answers) = c.attempt /\ Len(c.waits) = c.attempt
              /\ c.at = "sleep" => Len(c.answers) = c.attempt + 1
                                   /\ Len(c.waits) = c.attempt + 1
    /\ ret.op = "chat_completion" =>
          LET n == Len(ret.answers)
          IN  /\ n \in 1..max_retries
              /\ RetriedProperly(ret.answers, ret.waits)
              /\ Len(ret.waits) = n - 1
              /\ ret.answers[n] = "ok" <=> ret.kind = "ok"
              /\ ret.kind = "ok" => ret.value = "response"
              /\ ret.answers[n] = "status_error" => n = max_retries /\ ret.kind = "raise"
              /\ ret.answers[n] = "other_error" => ret.kind = "raise"

\* three status errors: two waits, of 1 and 2 seconds, then the call raised
C39_Witness ==
    /\ ret.op = "chat_completion" /\ ret.kind = "raise"
    /\ ret.answers = <<"status_error", "status_error", "status_error">>
    /\ ret.waits = <<1, 2>>

\* a success on the second attempt, and another error that ended a call at
\* once
C39_WitnessRecovered ==
    /\ ret.op = "chat_completion" /\ ret.kind = "ok"
    /\ ret.answers = <<"status_error", "ok">>
    /\ ret.waits = <<1>>
    /\ \E sid \in SessionIds : used[sid].calls = 2

C39_WitnessOtherError ==
    /\ ret.op = "chat_completion" /\ ret.kind = "raise"
    /\ ret.answers = <<"status_error", "other_error">>
    /\ ret.waits = <<1>>

====
